---- MODULE Spec2Model ----
(***************************************************************************)
(* Model of src/vmm/src/devices/virtio/iovec.rs: IoVecBuffer and           *)
(* IoVecBufferMut, their construction from a descriptor chain and the      *)
(* offset-addressed transfers read_at / read_volatile_at and write_at /    *)
(* write_volatile_at.                                                      *)
(*                                                                         *)
(* One behaviour is the life of one buffer: a chain is handed to           *)
(* from_descriptor_chain, which runs descriptor by descriptor, and the     *)
(* buffer it returns is then used for one transfer.  Every loop iteration  *)
(* and every endpoint call of the code is one step.                        *)
(*                                                                         *)
(* Spec drives the buffer through read_at / write_at, whose endpoint is a  *)
(* host slice; SpecIo drives it through read_volatile_at /                 *)
(* write_volatile_at with an endpoint that may be interrupted, fail or     *)
(* stop short.                                                             *)
(***************************************************************************)
EXTENDS Integers, Sequences, FiniteSets

\* ------------------------------------------------------------- bounds
\* Size of the one guest memory region, which starts at guest address 0.
MemSize == 3
\* Longest descriptor chain.
MaxDescs == 2
\* Largest descriptor length.
MaxDescLen == 2
\* Longest host slice handed to read_at / write_at, largest max_len.
MaxBufLen == 3
\* Largest offset handed to a transfer.
MaxOffset == 4
\* Interrupted results an endpoint reports during one transfer.
MaxInterrupts == 1

\* ------------------------------------------------------------ helpers
None == 0

Min(a, b) == IF a < b THEN a ELSE b

RECURSIVE SumIovLen(_)
SumIovLen(v) == IF v = <<>> THEN 0 ELSE Head(v).iov_len + SumIovLen(Tail(v))

\* ---------------------------------------------------------- the world
\* A descriptor of the chain: guest address, length, direction flag.
Descriptors == [addr : 0..MemSize, len : 0..MaxDescLen, write_only : BOOLEAN]

\* DescriptorChain: at least a head, then next_descriptor() until None.
Chains == UNION {[1..n -> Descriptors] : n \in 1..MaxDescs}

\* The two buffer types of the file.
IoVecBuffer == "IoVecBuffer"
IoVecBufferMut == "IoVecBufferMut"

\* Guest memory as the tests fill it (read_only_chain: distinct bytes).
GuestBytes == [a \in 0..(MemSize - 1) |-> a + 1]

\* GuestMemory::get_slice(addr, count): Ok iff addr lies in the region and
\* the whole range [addr, addr + count) does.
GetSliceOk(addr, count) == addr < MemSize /\ addr + count <= MemSize

VARIABLES
    kind,             \* which type's from_descriptor_chain / methods run
    chain,            \* the descriptor chain given as `head`
    mem,              \* guest memory, byte per guest address
    dirty,            \* the mark_dirty calls made so far, in order
    pc,               \* position in the code
    next_descriptor,  \* the descriptor the loop is at (None: chain ended)
    visited,          \* descriptors the loop has taken, in order
    vecs,             \* local `vecs` of from_descriptor_chain
    len,              \* local `len` of the function that is running
    iovec,            \* what from_descriptor_chain returned
    api,              \* the method called last on the buffer
    args,             \* its arguments
    endpoint,         \* `dst` / `src` of the running transfer
    mem0,             \* guest memory when the method was called
    offset,           \* local `offset` of the transfer
    total_bytes_read, \* local `total_bytes_read`
    iov,              \* position of the `for iov in &self.vecs` loop
    slice,            \* local `slice`: the sub-range given to the endpoint
    calls,            \* endpoint calls of the running transfer, in order
    ret               \* what the method returned

vars == <<kind, chain, mem, dirty, pc, next_descriptor, visited, vecs, len,
          iovec, api, args, endpoint, mem0, offset, total_bytes_read, iov,
          slice, calls, ret>>

transferVars == <<api, args, endpoint, mem0, offset, total_bytes_read, iov,
                  slice, calls, ret>>

Pending == [tag |-> "Pending"]
NoEndpoint == [kind |-> "none", data |-> <<>>, pos |-> 0]
NoSlice == [iov |-> 0, start |-> 0, len |-> 0]

Init ==
    /\ kind \in {IoVecBuffer, IoVecBufferMut}
    /\ chain \in Chains
    /\ mem = GuestBytes
    /\ dirty = <<>>
    /\ pc = "desc"
    /\ next_descriptor = 1
    /\ visited = <<>>
    /\ vecs = <<>>
    /\ len = 0
    /\ iovec = Pending
    /\ api = "none"
    /\ args = [offset |-> 0, len |-> 0]
    /\ endpoint = NoEndpoint
    /\ mem0 = GuestBytes
    /\ offset = 0
    /\ total_bytes_read = 0
    /\ iov = 0
    /\ slice = NoSlice
    /\ calls = <<>>
    /\ ret = Pending

\* ------------------------------------------------------- construction
desc == chain[next_descriptor]

\* `return Err(e)`: the locals are dropped, the caller gets the error.
ReturnErr(e) ==
    /\ iovec' = [tag |-> "Err", err |-> e]
    /\ vecs' = <<>>
    /\ len' = 0
    /\ pc' = "failed"

\* Faulty variant: the `!` of IoVecBufferMut is lost.
WrongDirectionUnnegated(k, d) == d.write_only

\* The direction a descriptor must not have: `desc.is_write_only()` for
\* IoVecBuffer, `!desc.is_write_only()` for IoVecBufferMut.
WrongDirection(k, d) ==
    IF k = IoVecBuffer THEN d.write_only ELSE ~d.write_only

DirectionError(k) ==
    IF k = IoVecBuffer THEN "WriteOnlyDescriptor" ELSE "ReadOnlyDescriptor"

\* Faulty variant: the range is translated before the direction is looked at.
CheckDirectionAfterTranslation ==
    /\ pc = "desc"
    /\ next_descriptor # None
    /\ visited' = Append(visited, next_descriptor)
    /\ IF ~GetSliceOk(desc.addr, desc.len)
         THEN ReturnErr("GuestMemory")
         ELSE IF WrongDirection(kind, desc)
           THEN ReturnErr(DirectionError(kind))
           ELSE pc' = "get_slice" /\ UNCHANGED <<vecs, len, iovec>>
    /\ UNCHANGED <<kind, chain, mem, dirty, next_descriptor>>
    /\ UNCHANGED transferVars

\* Loop head with a descriptor: the direction check.
CheckDirection ==
    /\ pc = "desc"
    /\ next_descriptor # None
    /\ visited' = Append(visited, next_descriptor)
    /\ IF WrongDirection(kind, desc)
         THEN ReturnErr(DirectionError(kind))
         ELSE pc' = "get_slice" /\ UNCHANGED <<vecs, len, iovec>>
    /\ UNCHANGED <<kind, chain, mem, dirty, next_descriptor>>
    /\ UNCHANGED transferVars

\* Faulty variant: the result of get_slice is not looked at.
GetSliceUnchecked ==
    /\ pc = "get_slice"
    /\ pc' = IF kind = IoVecBufferMut THEN "mark_dirty" ELSE "push"
    /\ UNCHANGED <<kind, chain, mem, dirty, next_descriptor, visited, vecs, len, iovec>>
    /\ UNCHANGED transferVars

\* Faulty variant: the segment is pushed without the range being marked.
GetSliceThenPush ==
    /\ pc = "get_slice"
    /\ IF GetSliceOk(desc.addr, desc.len)
         THEN pc' = "push" /\ UNCHANGED <<vecs, len, iovec>>
         ELSE ReturnErr("GuestMemory")
    /\ UNCHANGED <<kind, chain, mem, dirty, next_descriptor, visited>>
    /\ UNCHANGED transferVars

\* Faulty variant: the range is marked before it is translated.
GetSliceAfterMark ==
    /\ pc = "get_slice"
    /\ dirty' = IF kind = IoVecBufferMut
                  THEN Append(dirty, [desc |-> next_descriptor, offset |-> 0,
                                      count |-> desc.len])
                  ELSE dirty
    /\ IF GetSliceOk(desc.addr, desc.len)
         THEN pc' = "push" /\ UNCHANGED <<vecs, len, iovec>>
         ELSE ReturnErr("GuestMemory")
    /\ UNCHANGED <<kind, chain, mem, next_descriptor, visited>>
    /\ UNCHANGED transferVars

\* `desc.mem.get_slice(desc.addr, desc.len as usize)?`
GetSlice ==
    /\ pc = "get_slice"
    /\ IF GetSliceOk(desc.addr, desc.len)
         THEN /\ pc' = IF kind = IoVecBufferMut THEN "mark_dirty" ELSE "push"
              /\ UNCHANGED <<vecs, len, iovec>>
         ELSE ReturnErr("GuestMemory")
    /\ UNCHANGED <<kind, chain, mem, dirty, next_descriptor, visited>>
    /\ UNCHANGED transferVars

\* Faulty variant: the range starts at the guest address, not at 0.
DirtyRangeAtAddr(i, d) == [desc |-> i, offset |-> d.addr, count |-> d.len]

\* The range `slice.bitmap().mark_dirty(0, desc.len as usize)` marks.
DirtyRange(i, d) == [desc |-> i, offset |-> 0, count |-> d.len]

MarkDirty ==
    /\ pc = "mark_dirty"
    /\ dirty' = Append(dirty, DirtyRange(next_descriptor, desc))
    /\ pc' = "push"
    /\ UNCHANGED <<kind, chain, mem, next_descriptor, visited, vecs, len, iovec>>
    /\ UNCHANGED transferVars

\* Faulty variant: the segment is put in front of the list.
PushIovecFront(v, d) == <<[iov_base |-> d.addr, iov_len |-> d.len]>> \o v

\* `vecs.push(iovec { iov_base, iov_len })`
PushIovec(v, d) == Append(v, [iov_base |-> d.addr, iov_len |-> d.len])

\* `desc.next_descriptor()` / the chain's iterator
NextDescriptor(i) == IF i < Len(chain) THEN i + 1 ELSE None

Push ==
    /\ pc = "push"
    /\ vecs' = PushIovec(vecs, desc)
    /\ len' = len + desc.len
    /\ next_descriptor' = NextDescriptor(next_descriptor)
    /\ pc' = "desc"
    /\ UNCHANGED <<kind, chain, mem, dirty, visited, iovec>>
    /\ UNCHANGED transferVars

\* The chain ended: `Ok(Self { vecs, len })`.
ReturnOk ==
    /\ pc = "desc"
    /\ next_descriptor = None
    /\ iovec' = [tag |-> "Ok", vecs |-> vecs, len |-> len]
    /\ vecs' = <<>>
    /\ len' = 0
    /\ pc' = "ready"
    /\ UNCHANGED <<kind, chain, mem, dirty, next_descriptor, visited>>
    /\ UNCHANGED transferVars

\* ---------------------------------------------------------- transfers
self == iovec

\* Bytes a generic source hands out, by position in its stream; the slice
\* given to write_at holds the first of them.
SrcByte(p) == 100 + p

\* Faulty variant: `<=` for `<`.
OffsetInBufferInclusive(off, self_len) == off <= self_len

\* `if offset < self.len()` of read_at and write_at.
OffsetInBuffer(off, self_len) == off < self_len

\* `let size = buf.len().min(self.len() - offset)`
ClippedSize(buf_len, off, self_len) == Min(buf_len, self_len - off)

\* Entry of read_volatile_at / write_volatile_at: the locals are set.
EnterTransfer(off, max_len) ==
    /\ offset' = off
    /\ len' = max_len
    /\ total_bytes_read' = 0
    /\ iov' = 1
    /\ slice' = NoSlice
    /\ ret' = Pending
    /\ pc' = "for"

\* Faulty variant: the call truncates the buffer at the offset.
CalledTruncating(name, off, n, ep) ==
    /\ pc = "ready"
    /\ api = "none"
    /\ api' = name
    /\ args' = [offset |-> off, len |-> n]
    /\ endpoint' = ep
    /\ mem0' = mem
    /\ calls' = <<>>
    /\ iovec' = [iovec EXCEPT !.len = Min(off, iovec.len)]
    /\ UNCHANGED <<kind, chain, mem, dirty, next_descriptor, visited, vecs>>

\* Faulty variant: the call marks the range it is asked to move.
CalledMarkingDirty(name, off, n, ep) ==
    /\ pc = "ready"
    /\ api = "none"
    /\ api' = name
    /\ args' = [offset |-> off, len |-> n]
    /\ endpoint' = ep
    /\ mem0' = mem
    /\ calls' = <<>>
    /\ dirty' = Append(dirty, [desc |-> 0, offset |-> off, count |-> n])
    /\ UNCHANGED <<kind, chain, mem, next_descriptor, visited, vecs, iovec>>

\* Entry of the one method called on the buffer: the call is recorded.
Called(name, off, n, ep) ==
    /\ pc = "ready"
    /\ api = "none"
    /\ api' = name
    /\ args' = [offset |-> off, len |-> n]
    /\ endpoint' = ep
    /\ mem0' = mem
    /\ calls' = <<>>
    /\ UNCHANGED <<kind, chain, mem, dirty, next_descriptor, visited, vecs, iovec>>

\* read_at / write_at: the offset check, then the transfer clipped to the
\* end of the buffer; past the end the answer is None at once.
AtMethod(name, buf_len, off, ep) ==
    /\ Called(name, off, buf_len, ep)
    /\ IF OffsetInBuffer(off, self.len)
         THEN EnterTransfer(off, ClippedSize(buf_len, off, self.len))
         ELSE /\ ret' = [tag |-> "None"]
              /\ pc' = "ready"
              /\ UNCHANGED <<offset, len, total_bytes_read, iov, slice>>

\* `buf: &mut [u8]` of read_at, zeroed as the callers allocate it.
DstSlice(n) == [kind |-> "slice", data |-> [i \in 1..n |-> 0], pos |-> 0]
\* `buf: &[u8]` of write_at.
SrcSlice(n) == [kind |-> "slice", data |-> [i \in 1..n |-> SrcByte(i - 1)], pos |-> 0]
\* Any other WriteVolatile / ReadVolatile: a file, a socket.
IoEndpoint == [kind |-> "io", data |-> <<>>, pos |-> 0]

ReadAt ==
    /\ kind = IoVecBuffer
    /\ \E buf_len \in 0..MaxBufLen, off \in 0..MaxOffset :
          AtMethod("read_at", buf_len, off, DstSlice(buf_len))

WriteAt ==
    /\ kind = IoVecBufferMut
    /\ \E buf_len \in 0..MaxBufLen, off \in 0..MaxOffset :
          AtMethod("write_at", buf_len, off, SrcSlice(buf_len))

ReadVolatileAt ==
    /\ kind = IoVecBuffer
    /\ \E max_len \in 0..MaxBufLen, off \in 0..MaxOffset :
          /\ Called("read_volatile_at", off, max_len, IoEndpoint)
          /\ EnterTransfer(off, max_len)

WriteVolatileAt ==
    /\ kind = IoVecBufferMut
    /\ \E max_len \in 0..MaxBufLen, off \in 0..MaxOffset :
          /\ Called("write_volatile_at", off, max_len, IoEndpoint)
          /\ EnterTransfer(off, max_len)

\* What the method hands back for the transfer's result r: read_at and
\* write_at apply `.ok()`.
Returned(name, r) ==
    IF name \in {"read_at", "write_at"}
      THEN IF r.tag = "Ok" THEN [tag |-> "Some", val |-> r.val] ELSE [tag |-> "None"]
      ELSE r

Return(r) ==
    /\ ret' = Returned(api, r)
    /\ pc' = "ready"

\* Faulty variant: `>` for `>=`.
SkipSegmentStrict(off, iov_len) == off > iov_len

\* `if offset >= iov.iov_len`
SkipSegment(off, iov_len) == off >= iov_len

\* Faulty variant: a skipped segment is not taken off the offset.
AfterSkipKeepsOffset(off, iov_len) == off

\* `offset -= iov.iov_len`
AfterSkip(off, iov_len) == off - iov_len

\* Faulty variant: the sub-range starts at the head of the segment.
SubRangeFromSegmentStart(i, off, iov_len, budget) ==
    [iov |-> i, start |-> 0,
     len |-> IF iov_len - off > budget THEN budget ELSE iov_len - off]

\* Faulty variant: the sub-range is not cut to the budget.
SubRangeUnclipped(i, off, iov_len, budget) ==
    [iov |-> i, start |-> off, len |-> iov_len - off]

\* `VolatileSlice::new(iov_base, iov_len).offset(offset)`, then
\* `slice.subslice(0, len)` when it is longer than len.  Neither call fails:
\* offset < iov_len here and len < slice.len() there.
SubRange(i, off, iov_len, budget) ==
    [iov |-> i, start |-> off,
     len |-> IF iov_len - off > budget THEN budget ELSE iov_len - off]

\* Faulty variant: the loop goes on with nothing left to move.
BudgetSpentIgnored(budget) == FALSE

\* `if len == 0 { break; }`
BudgetSpent(budget) == budget = 0

\* One turn of `for iov in &self.vecs` up to the endpoint call.
ForIov ==
    /\ pc = "for"
    /\ IF iov > Len(self.vecs) \/ BudgetSpent(len)
         THEN /\ Return([tag |-> "Ok", val |-> total_bytes_read])
              /\ UNCHANGED <<offset, len, iov, slice>>
         ELSE IF SkipSegment(offset, self.vecs[iov].iov_len)
           THEN /\ offset' = AfterSkip(offset, self.vecs[iov].iov_len)
                /\ iov' = iov + 1
                /\ UNCHANGED <<len, slice, ret, pc>>
           ELSE /\ slice' = SubRange(iov, offset, self.vecs[iov].iov_len, len)
                /\ offset' = 0
                /\ pc' = "endpoint"
                /\ UNCHANGED <<len, iov, ret>>
    /\ UNCHANGED <<kind, chain, mem, dirty, next_descriptor, visited, vecs, iovec>>
    /\ UNCHANGED <<api, args, endpoint, mem0, total_bytes_read, calls>>

\* Faulty variant: the start of the sub-range is left out.
SliceAddrIgnoringStart(s, j) == self.vecs[s.iov].iov_base + j

\* Guest address of byte j of the sub-range s.
SliceAddr(s, j) == self.vecs[s.iov].iov_base + s.start + j

\* The failures an endpoint can report besides Interrupted.
EndpointErrors == {"IOError", "PartialBuffer"}

Interrupts == Cardinality({i \in DOMAIN calls : calls[i].result = "Interrupted"})

\* What one `dst.write_volatile(&slice)` / `src.read_volatile(&mut slice)`
\* can answer.  A slice copies what fits and cannot fail; any other
\* endpoint may be interrupted, fail, or move any part of the sub-range.
Outcomes(ep, s) ==
    IF ep.kind = "slice"
      THEN {[result |-> "Ok", n |-> Min(s.len, Len(ep.data) - ep.pos), err |-> "none"]}
      ELSE {[result |-> "Ok", n |-> k, err |-> "none"] : k \in 0..s.len}
           \cup {[result |-> "Err", n |-> 0, err |-> e] : e \in EndpointErrors}
           \cup (IF Interrupts < MaxInterrupts
                   THEN {[result |-> "Interrupted", n |-> 0, err |-> "Interrupted"]}
                   ELSE {})

CallRecord(o) ==
    [iov |-> slice.iov, start |-> slice.start, len |-> slice.len,
     offset |-> offset, budget |-> len, total |-> total_bytes_read,
     result |-> o.result, n |-> o.n, err |-> o.err]

\* The endpoint moved n bytes of the sub-range: guest memory to dst for
\* IoVecBuffer, src to guest memory for IoVecBufferMut.
MoveBytes(n) ==
    IF kind = IoVecBuffer
      THEN /\ endpoint' =
                IF endpoint.kind = "slice"
                  THEN [endpoint EXCEPT
                          !.data = [i \in DOMAIN endpoint.data |->
                                      IF endpoint.pos < i /\ i <= endpoint.pos + n
                                        THEN mem[SliceAddr(slice, i - endpoint.pos - 1)]
                                        ELSE endpoint.data[i]],
                          !.pos = endpoint.pos + n]
                  ELSE [endpoint EXCEPT
                          !.data = endpoint.data \o
                                     [j \in 1..n |-> mem[SliceAddr(slice, j - 1)]],
                          !.pos = endpoint.pos + n]
           /\ UNCHANGED mem
      ELSE /\ mem' = [a \in DOMAIN mem |->
                        IF \E j \in 0..(n - 1) : SliceAddr(slice, j) = a
                          THEN LET j == CHOOSE j \in 0..(n - 1) : SliceAddr(slice, j) = a
                               IN IF endpoint.kind = "slice"
                                    THEN endpoint.data[endpoint.pos + j + 1]
                                    ELSE SrcByte(endpoint.pos + j)
                          ELSE mem[a]]
           /\ endpoint' = [endpoint EXCEPT !.pos = endpoint.pos + n]

\* Faulty variant: Interrupted is returned like any other error.
OnInterruptedReturnsErr ==
    /\ Return([tag |-> "Err", err |-> "Interrupted"])
    /\ UNCHANGED <<mem, endpoint, offset, len, total_bytes_read, iov, slice>>

\* Faulty variant: an interrupted call ends the transfer with what was
\* moved so far.
OnInterruptedGivesUp ==
    /\ Return([tag |-> "Ok", val |-> total_bytes_read])
    /\ UNCHANGED <<mem, endpoint, offset, len, total_bytes_read, iov, slice>>

\* `Err(IOError(err)) if err.kind() == Interrupted => continue`
OnInterrupted ==
    UNCHANGED <<mem, endpoint, offset, len, total_bytes_read, iov, slice, ret, pc>>

\* Faulty variant: the transfer is undone before the error is returned.
OnErrorRollsBack(volatile_memory_error) ==
    /\ Return([tag |-> "Err", err |-> volatile_memory_error])
    /\ mem' = mem0
    /\ UNCHANGED <<endpoint, offset, len, total_bytes_read, iov, slice>>

\* `Err(volatile_memory_error) => return Err(volatile_memory_error)`
OnError(volatile_memory_error) ==
    /\ Return([tag |-> "Err", err |-> volatile_memory_error])
    /\ UNCHANGED <<mem, endpoint, offset, len, total_bytes_read, iov, slice>>

\* Faulty variant: a short transfer does not stop the loop.
ShortTransferIgnored(bytes_read, slice_len) == FALSE

\* Faulty variant: `<=` for `<`, a full transfer stops the loop too.
ShortTransferInclusive(bytes_read, slice_len) == bytes_read <= slice_len

\* `if bytes_read < slice.len()`
ShortTransfer(bytes_read, slice_len) == bytes_read < slice_len

\* `Ok(bytes_read) => break bytes_read` and the rest of the loop body.
OnOk(bytes_read) ==
    /\ MoveBytes(bytes_read)
    /\ total_bytes_read' = total_bytes_read + bytes_read
    /\ IF ShortTransfer(bytes_read, slice.len)
         THEN /\ Return([tag |-> "Ok", val |-> total_bytes_read + bytes_read])
              /\ UNCHANGED <<len, iov>>
         ELSE /\ len' = len - bytes_read
              /\ iov' = iov + 1
              /\ pc' = "for"
              /\ UNCHANGED ret
    /\ UNCHANGED <<offset, slice>>

\* One call of the endpoint inside `let bytes_read = loop { match ... }`.
EndpointCall ==
    /\ pc = "endpoint"
    /\ \E o \in Outcomes(endpoint, slice) :
          /\ calls' = Append(calls, CallRecord(o))
          /\ CASE o.result = "Interrupted" -> OnInterrupted
               [] o.result = "Err" -> OnError(o.err)
               [] o.result = "Ok" -> OnOk(o.n)
    /\ UNCHANGED <<kind, chain, dirty, next_descriptor, visited, vecs, iovec>>
    /\ UNCHANGED <<api, args, mem0>>

\* ------------------------------------------------------------- claims
\* A method of the buffer has returned.
MethodReturned(name) == pc = "ready" /\ api = name

\* The flattened view of a segment list: the guest address of each of its
\* bytes, segment after segment.
RECURSIVE FlatAddrs(_)
FlatAddrs(v) ==
    IF v = <<>> THEN <<>>
    ELSE [j \in 1..Head(v).iov_len |-> Head(v).iov_base + j - 1] \o FlatAddrs(Tail(v))

\* What a read_at / write_at with these arguments must answer on a buffer
\* of total length n.
Expected(n) ==
    IF args.offset >= n THEN [tag |-> "None"]
    ELSE [tag |-> "Some", val |-> Min(args.len, n - args.offset)]

\* C1: on a read buffer whose len is the sum of its segment lengths,
\* read_at(buf, offset) returns None iff offset >= len, and otherwise
\* Some(min(buf.len, len - offset)), which is Some(0) for an empty buf.
C1_ReadAtCount ==
    (MethodReturned("read_at") /\ self.len = SumIovLen(self.vecs))
        => /\ (ret.tag = "None") <=> (args.offset >= self.len)
           /\ ret = Expected(self.len)
           /\ (args.len = 0 /\ args.offset < self.len) => ret = [tag |-> "Some", val |-> 0]

\* A read_at on several segments, from inside the buffer, clipped to its end.
C1_Witness ==
    /\ MethodReturned("read_at")
    /\ Len(self.vecs) >= 2
    /\ args.offset > 0
    /\ ret.tag = "Some"
    /\ ret.val = self.len - args.offset
    /\ ret.val > 0
    /\ ret.val < args.len

\* C2: on a write buffer whose len is the sum of its segment lengths,
\* write_at(buf, offset) returns None iff offset >= len, and otherwise
\* Some(min(buf.len, len - offset)).
C2_WriteAtCount ==
    (MethodReturned("write_at") /\ self.len = SumIovLen(self.vecs))
        => /\ (ret.tag = "None") <=> (args.offset >= self.len)
           /\ ret = Expected(self.len)

\* A write_at of a whole source that spans two segments.
C2_Witness ==
    /\ MethodReturned("write_at")
    /\ ret.tag = "Some"
    /\ ret.val = args.len
    /\ \E i, j \in DOMAIN calls : i < j /\ calls[i].n > 0 /\ calls[j].n > 0

\* The flattened view of the buffer.
Flat == FlatAddrs(self.vecs)

\* No guest byte belongs to two places of the flattened view.
NonOverlapping == \A i, j \in DOMAIN Flat : i # j => Flat[i] # Flat[j]

\* Endpoint calls of the transfer that moved bytes of segment i.
MovedIn(i) == {c \in DOMAIN calls : calls[c].iov = i /\ calls[c].n > 0}

\* C3: when read_at(buf, offset) returns Some(n), buf[0..n) holds bytes
\* [offset, offset + n) of the flattened view, also across segment
\* boundaries, and buf[n..) is as it was before the call.
C3_ReadAtBytes ==
    (MethodReturned("read_at") /\ ret.tag = "Some")
        => /\ Len(endpoint.data) = args.len
           /\ \A i \in 1..args.len :
                 endpoint.data[i] =
                     IF i <= ret.val THEN mem[Flat[args.offset + i]]
                     ELSE DstSlice(args.len).data[i]

\* A read_at from inside a segment that crosses a segment boundary and
\* leaves the tail of buf alone.
C3_Witness ==
    /\ MethodReturned("read_at")
    /\ ret.tag = "Some"
    /\ args.offset > 0
    /\ ret.val < args.len
    /\ \E i, j \in DOMAIN self.vecs : i < j /\ MovedIn(i) # {} /\ MovedIn(j) # {}

\* C4: when write_at(src, offset) returns Some(n) on a write buffer whose
\* segments do not overlap, bytes [offset, offset + n) of the flattened
\* view are src[0..n) afterwards, split over the segments in their order,
\* and a source longer than the space left is clipped to the buffer end.
C4_WriteAtBytes ==
    (MethodReturned("write_at") /\ ret.tag = "Some" /\ NonOverlapping)
        => /\ \A i \in 1..ret.val :
                 mem[Flat[args.offset + i]] = SrcSlice(args.len).data[i]
           /\ args.len > self.len - args.offset => ret.val = self.len - args.offset

\* The write of the tests at offset 60, scaled: it starts on the last byte
\* of segment 1, goes on at the head of segment 2 and is clipped at the end
\* of the buffer.
C4_Witness ==
    /\ MethodReturned("write_at")
    /\ NonOverlapping
    /\ Len(self.vecs) = 2
    /\ self.vecs[1].iov_len = 2
    /\ args.offset = 1
    /\ args.len > self.len - args.offset
    /\ ret = [tag |-> "Some", val |-> 2]
    /\ mem[self.vecs[1].iov_base + 1] = SrcByte(0)
    /\ mem[self.vecs[2].iov_base] = SrcByte(1)
    /\ mem[self.vecs[1].iov_base] = mem0[self.vecs[1].iov_base]

\* C5: write_at(src, offset) leaves every guest byte outside the flattened
\* range [offset, offset + n) as it was, n being the count returned; when
\* it returns None no guest byte changes.
C5_WriteAtFrame ==
    MethodReturned("write_at")
        => LET n == IF ret.tag = "Some" THEN ret.val ELSE 0
               written == {Flat[args.offset + i] : i \in 1..n}
           IN \A a \in DOMAIN mem : a \notin written => mem[a] = mem0[a]

\* A write_at into the middle of a buffer: bytes of the buffer before and
\* after the written range exist and some byte was written.
C5_Witness ==
    /\ MethodReturned("write_at")
    /\ NonOverlapping
    /\ ret.tag = "Some"
    /\ ret.val > 0
    /\ args.offset > 0
    /\ args.offset + ret.val < self.len
    /\ mem # mem0

\* from_descriptor_chain has returned.
Constructed == iovec.tag # "Pending"

\* Descriptor i of the chain is device-writable in a chain given to the
\* read buffer, or device-readable in one given to the write buffer.
WrongDirectionOf(i) ==
    \/ kind = IoVecBuffer /\ chain[i].write_only
    \/ kind = IoVecBufferMut /\ ~chain[i].write_only

\* The direction-mismatch error of the variant being built.
MismatchError ==
    IF kind = IoVecBuffer THEN "WriteOnlyDescriptor" ELSE "ReadOnlyDescriptor"

\* Descriptor i of the chain passes both checks of the constructor.
GoodDescriptor(i) ==
    /\ ~WrongDirectionOf(i)
    /\ GetSliceOk(chain[i].addr, chain[i].len)

\* The segments and the total a chain stands for.
ChainSegments == [i \in DOMAIN chain |-> [iov_base |-> chain[i].addr, iov_len |-> chain[i].len]]
ChainLength == SumIovLen(ChainSegments)

\* Nothing of a failed construction is left: no buffer, no segment list.
NoBuffer == iovec.tag = "Err" /\ vecs = <<>> /\ len = 0

\* C6: for a chain whose descriptors all have the direction of the variant
\* and a translatable range, construction succeeds with one segment per
\* descriptor, in chain order, of the descriptor's length, and len is the
\* sum of the descriptor lengths.
C6_ConstructionSucceeds ==
    (Constructed /\ \A i \in DOMAIN chain : GoodDescriptor(i))
        => /\ iovec.tag = "Ok"
           /\ iovec.vecs = ChainSegments
           /\ iovec.len = ChainLength

\* A buffer built from two descriptors of different lengths that are not
\* in address order.
C6_Witness ==
    /\ pc = "ready"
    /\ Len(chain) = 2
    /\ Len(iovec.vecs) = 2
    /\ iovec.vecs[1].iov_len > iovec.vecs[2].iov_len
    /\ iovec.vecs[1].iov_base > iovec.vecs[2].iov_base
    /\ iovec.len = 3

\* C7 as stated: a chain with at least one descriptor of the wrong
\* direction fails with the direction-mismatch error of the variant, and
\* no buffer or partial segment list is left.
C7_AnyWrongDirectionGivesDirectionError ==
    (Constructed /\ \E i \in DOMAIN chain : WrongDirectionOf(i))
        => /\ NoBuffer
           /\ iovec.err = MismatchError

\* C7 amended: such a chain always fails and leaves no buffer or partial
\* segment list; the error is the direction-mismatch error of the variant
\* exactly when every descriptor before the first one of the wrong
\* direction has a translatable range, and GuestMemory otherwise.
C7_WrongDirectionFails ==
    \A k \in DOMAIN chain :
        (Constructed /\ WrongDirectionOf(k) /\ \A i \in 1..(k - 1) : ~WrongDirectionOf(i))
            => /\ NoBuffer
               /\ iovec.err =
                     IF \A i \in 1..(k - 1) : GetSliceOk(chain[i].addr, chain[i].len)
                       THEN MismatchError ELSE "GuestMemory"

\* A construction that failed on the direction of its second descriptor,
\* after the segment of the first had been pushed.
C7_Witness ==
    /\ pc = "failed"
    /\ iovec.err = MismatchError
    /\ visited = <<1, 2>>
    /\ chain[1].len > 0

\* C8: when the first check to fail is the translation of descriptor k,
\* construction stops there with the GuestMemory error: no buffer is
\* produced and no descriptor after k is taken from the chain.
C8_TranslationFailureAborts ==
    \A k \in DOMAIN chain :
        ((\A i \in 1..(k - 1) : GoodDescriptor(i))
          /\ ~WrongDirectionOf(k)
          /\ ~GetSliceOk(chain[k].addr, chain[k].len))
            => /\ Len(visited) <= k
               /\ Constructed =>
                     /\ NoBuffer
                     /\ iovec.err = "GuestMemory"
                     /\ visited = [i \in 1..k |-> i]
                     /\ pc = "failed"

\* A construction that failed on a range that starts inside guest memory
\* and ends outside it, while a good descriptor was still to come.
C8_Witness ==
    /\ pc = "failed"
    /\ iovec.err = "GuestMemory"
    /\ visited = <<1>>
    /\ chain[1].addr < MemSize
    /\ Len(chain) = 2
    /\ GoodDescriptor(2)

\* C9: a write buffer built from N descriptors has had exactly N
\* mark_dirty calls, one per descriptor in chain order, each for
\* [0, length) of its descriptor, all made when construction returns, and
\* no transfer on the buffer adds or removes one.
C9_DirtyMarks ==
    (kind = IoVecBufferMut /\ iovec.tag = "Ok")
        => dirty = [i \in DOMAIN chain |-> [desc |-> i, offset |-> 0, count |-> chain[i].len]]

\* A write that touched only one of the two descriptors of a buffer.
C9_Witness ==
    /\ MethodReturned("write_at")
    /\ Len(chain) = 2
    /\ Len(dirty) = 2
    /\ ret.tag = "Some"
    /\ ret.val < self.len
    /\ \E i \in DOMAIN dirty : dirty[i].count > 0 /\ MovedIn(i) = {}

\* The running transfer is where endpoint call c left it.
SameSubRange(c, d) ==
    /\ d.iov = c.iov /\ d.start = c.start /\ d.len = c.len
    /\ d.offset = c.offset /\ d.budget = c.budget /\ d.total = c.total

\* C10: an endpoint call that fails with Interrupted is followed by a call
\* on the same sub-range with offset, budget and running total unchanged,
\* and Interrupted is never what the method returns.
C10_InterruptedRetried ==
    /\ \A c \in DOMAIN calls :
          calls[c].result = "Interrupted"
              => IF c < Len(calls)
                   THEN SameSubRange(calls[c], calls[c + 1])
                   ELSE /\ pc = "endpoint"
                        /\ ret = Pending
                        /\ SameSubRange(calls[c], CallRecord(calls[c]))
    /\ ret.tag = "Err" => ret.err # "Interrupted"

\* A transfer whose first call was interrupted and whose retry moved the
\* whole sub-range, after which a second segment was reached.
C10_Witness ==
    /\ Len(calls) >= 3
    /\ calls[1].result = "Interrupted"
    /\ calls[2].result = "Ok"
    /\ calls[2].n = calls[1].len
    /\ calls[1].start > 0
    /\ calls[3].iov > calls[2].iov

\* Endpoint call c moved fewer bytes than the sub-range it was given.
ShortCall(c) == calls[c].result = "Ok" /\ calls[c].n < calls[c].len

\* C11: once an endpoint call of a transfer has moved fewer bytes than its
\* sub-range, the transfer makes no further endpoint call and returns the
\* running total with the bytes of the short call in it, whatever budget
\* and segments remain.
C11_ShortTransferStops ==
    \A c \in DOMAIN calls :
        ShortCall(c)
            => /\ c = Len(calls)
               /\ pc = "ready"
               /\ ret = [tag |-> "Ok", val |-> calls[c].total + calls[c].n]

\* A short call in the first segment after which budget is left and a
\* later segment has bytes.
C11_Witness ==
    /\ Len(calls) = 1
    /\ ShortCall(1)
    /\ calls[1].n > 0
    /\ calls[1].budget > calls[1].len
    /\ calls[1].iov = 1
    /\ Len(self.vecs) = 2
    /\ self.vecs[2].iov_len > 0
    /\ ret.tag = "Ok"

\* Guest address of byte j of the sub-range of endpoint call c.
CallAddr(c, j) == self.vecs[c.iov].iov_base + c.start + j

\* Bytes moved by the first k endpoint calls of the transfer.
RECURSIVE BytesMoved(_)
BytesMoved(k) == IF k = 0 THEN 0 ELSE BytesMoved(k - 1) + calls[k].n

\* Guest memory after the first k calls of a transfer into the buffer.
RECURSIVE MemAfter(_)
MemAfter(k) ==
    IF k = 0 THEN mem0
    ELSE LET m == MemAfter(k - 1)
             c == calls[k]
         IN [a \in DOMAIN m |->
               IF \E j \in 0..(c.n - 1) : CallAddr(c, j) = a
                 THEN SrcByte(BytesMoved(k - 1)
                              + (CHOOSE j \in 0..(c.n - 1) : CallAddr(c, j) = a))
                 ELSE m[a]]

\* What the destination holds after the first k calls of a transfer out
\* of the buffer.
RECURSIVE DataAfter(_)
DataAfter(k) ==
    IF k = 0 THEN <<>>
    ELSE DataAfter(k - 1) \o [j \in 1..calls[k].n |-> mem0[CallAddr(calls[k], j - 1)]]

\* C12: when an endpoint call fails with an error other than Interrupted,
\* the transfer returns that error and no byte count, no endpoint call
\* follows, and what the earlier calls moved stays moved, in guest memory
\* and in the endpoint alike.
C12_ErrorAbortsWithoutRollback ==
    \A c \in DOMAIN calls :
        calls[c].result = "Err"
            => /\ c = Len(calls)
               /\ pc = "ready"
               /\ ret = [tag |-> "Err", err |-> calls[c].err]
               /\ endpoint.pos = BytesMoved(c - 1)
               /\ IF kind = IoVecBufferMut
                    THEN mem = MemAfter(c - 1)
                    ELSE mem = mem0 /\ endpoint.data = DataAfter(c - 1)

\* A failure at the second segment of a write buffer, after the first
\* segment was filled from the source and with budget left.
C12_Witness ==
    /\ kind = IoVecBufferMut
    /\ Len(calls) = 2
    /\ calls[1].result = "Ok"
    /\ calls[1].n > 0
    /\ calls[2].result = "Err"
    /\ calls[2].iov > calls[1].iov
    /\ calls[2].err = "PartialBuffer"
    /\ mem # mem0
    /\ ret.tag = "Err"

\* Every descriptor of the chain has length zero.
ZeroLengthChain == \A i \in DOMAIN chain : chain[i].len = 0

\* read_at / write_at answered None and moved nothing: no endpoint call,
\* guest memory and the caller's slice as they were.
NothingMoved ==
    /\ ret = [tag |-> "None"]
    /\ calls = <<>>
    /\ mem = mem0
    /\ endpoint \in {DstSlice(args.len), SrcSlice(args.len)}

\* C13 as stated: every chain of zero-length descriptors constructs into
\* a buffer of len 0, on which read_at and write_at return None for any
\* offset and slice and move no byte.
C13_AnyZeroLengthChainConstructs ==
    ZeroLengthChain
        => /\ Constructed => (iovec.tag = "Ok" /\ iovec.len = 0)
           /\ (MethodReturned("read_at") \/ MethodReturned("write_at")) => NothingMoved

\* C13 amended: a chain of zero-length descriptors that all have the
\* direction of the variant and a translatable address constructs into a
\* buffer of len 0 with one empty segment per descriptor; a zero-length
\* descriptor of the wrong direction or at an untranslatable address
\* still fails construction; on the buffer read_at and write_at return
\* None for any offset and slice and move no byte.
C13_ZeroLengthChain ==
    ZeroLengthChain
        => /\ Constructed =>
                 IF \A i \in DOMAIN chain : GoodDescriptor(i)
                   THEN /\ iovec.tag = "Ok"
                        /\ iovec.len = 0
                        /\ Len(iovec.vecs) = Len(chain)
                   ELSE NoBuffer
           /\ (MethodReturned("read_at") \/ MethodReturned("write_at")) => NothingMoved

\* read_at at offset 0 with a non-empty destination on a buffer built from
\* two zero-length descriptors.
C13_Witness ==
    /\ ZeroLengthChain
    /\ Len(chain) = 2
    /\ MethodReturned("read_at")
    /\ args.offset = 0
    /\ args.len > 0
    /\ ret.tag = "None"

\* The segment list as it stands: the local of a running construction,
\* the field of the buffer afterwards.
Segments == IF iovec.tag = "Ok" THEN iovec.vecs ELSE vecs

\* C14: while a write buffer is built, the mark_dirty of a descriptor
\* comes after its range was translated and before its segment is
\* appended: no descriptor is marked while its translation is pending or
\* has failed, and in every state each segment of the list is that of a
\* descriptor already marked for [0, length).
C14_DirtyBeforeSegment ==
    kind = IoVecBufferMut
        => /\ \A i \in DOMAIN Segments :
                 /\ i \in DOMAIN dirty
                 /\ dirty[i] = [desc |-> i, offset |-> 0, count |-> Segments[i].iov_len]
           /\ \A i \in DOMAIN dirty :
                 /\ GetSliceOk(chain[dirty[i].desc].addr, chain[dirty[i].desc].len)
                 /\ pc = "get_slice" => dirty[i].desc < next_descriptor
           /\ pc # "failed" => Len(dirty) <= Len(Segments) + 1

\* The second descriptor of a chain is marked and its segment is not yet
\* in the list.
C14_Witness ==
    /\ kind = IoVecBufferMut
    /\ pc = "push"
    /\ next_descriptor = 2
    /\ Len(dirty) = 2
    /\ Len(vecs) = 1
    /\ chain[2].len > 0

\* The descriptor a failed construction stopped at.
FailedAt == visited[Len(visited)]

\* C15: when the construction of a write buffer fails at descriptor k, by
\* direction or by translation, the mark_dirty calls made are those of
\* the descriptors before k, one each and in chain order; k and the
\* descriptors after it are not marked, and nothing else has changed:
\* guest memory is untouched and no buffer exists.
C15_FailureKeepsEarlierMarks ==
    (kind = IoVecBufferMut /\ pc = "failed")
        => /\ ~GoodDescriptor(FailedAt)
           /\ dirty = [i \in 1..(FailedAt - 1) |->
                          [desc |-> i, offset |-> 0, count |-> chain[i].len]]
           /\ \A i \in DOMAIN dirty : dirty[i].desc < FailedAt
           /\ mem = GuestBytes
           /\ NoBuffer
           /\ calls = <<>>

\* A write-buffer construction that failed on the translation of its
\* second descriptor, the first being marked.
C15_Witness ==
    /\ kind = IoVecBufferMut
    /\ pc = "failed"
    /\ FailedAt = 2
    /\ iovec.err = "GuestMemory"
    /\ Len(dirty) = 1
    /\ dirty[1].count > 0
    /\ chain[2].len > 0

\* The earliest descriptor of the chain that fails a check.
EarliestFailing ==
    CHOOSE k \in DOMAIN chain :
        ~GoodDescriptor(k) /\ \A i \in 1..(k - 1) : GoodDescriptor(i)

\* C16: a construction that fails returns the error of the earliest
\* descriptor of the chain that fails a check, and the direction of a
\* descriptor is checked before its range is translated: an
\* untranslatable descriptor followed by one of the wrong direction gives
\* GuestMemory, a descriptor that is both gives the direction error.
C16_EarliestErrorDirectionFirst ==
    (Constructed /\ \E i \in DOMAIN chain : ~GoodDescriptor(i))
        => /\ iovec.tag = "Err"
           /\ FailedAt = EarliestFailing
           /\ iovec.err = IF WrongDirectionOf(EarliestFailing)
                            THEN MismatchError ELSE "GuestMemory"
           /\ \A i, j \in DOMAIN chain :
                 (i = EarliestFailing /\ i < j /\ ~WrongDirectionOf(i) /\ WrongDirectionOf(j))
                     => iovec.err = "GuestMemory"

\* A chain whose head has the right direction and an untranslatable range
\* and whose second descriptor has the wrong direction and an
\* untranslatable range too: GuestMemory, from the head.
C16_Witness ==
    /\ pc = "failed"
    /\ Len(chain) = 2
    /\ ~WrongDirectionOf(1)
    /\ ~GetSliceOk(chain[1].addr, chain[1].len)
    /\ WrongDirectionOf(2)
    /\ ~GetSliceOk(chain[2].addr, chain[2].len)
    /\ iovec.err = "GuestMemory"
    /\ visited = <<1>>

\* Position in the flattened view of the first byte of the sub-range of
\* endpoint call c.
FlatStart(c) == SumIovLen(SubSeq(self.vecs, 1, c.iov - 1)) + c.start

\* C17: the sub-ranges a transfer hands to the endpoint are taken in
\* segment order, each non-empty and inside one segment; a segment that
\* lies before the offset or has length zero gets no call; a segment gets
\* at most one call that is not interrupted; the first sub-range starts at
\* the requested offset and each later one where the completed call
\* before it ended in the flattened view.
C17_SubRanges ==
    \A c \in DOMAIN calls :
        LET r == calls[c]
        IN /\ r.iov \in DOMAIN self.vecs
           /\ \A i \in DOMAIN self.vecs :
                 (\/ self.vecs[i].iov_len = 0
                  \/ SumIovLen(SubSeq(self.vecs, 1, i)) <= args.offset) => r.iov # i
           /\ r.len > 0
           /\ r.start >= 0
           /\ r.start + r.len <= self.vecs[r.iov].iov_len
           /\ FlatStart(r) + r.len > args.offset
           /\ c = 1 => FlatStart(r) = args.offset
           /\ c > 1 =>
                 IF calls[c - 1].result = "Interrupted"
                   THEN r.iov = calls[c - 1].iov /\ FlatStart(r) = FlatStart(calls[c - 1])
                   ELSE /\ r.iov > calls[c - 1].iov
                        /\ FlatStart(r) = FlatStart(calls[c - 1]) + calls[c - 1].len
           /\ \A d \in DOMAIN calls :
                 (d # c /\ r.result # "Interrupted" /\ calls[d].result # "Interrupted")
                     => calls[d].iov # r.iov

\* A transfer from inside the first segment that went on at the head of
\* the second.
C17_Witness ==
    /\ Len(calls) = 2
    /\ calls[1].result = "Ok"
    /\ calls[2].result = "Ok"
    /\ calls[1].iov = 1
    /\ calls[1].start > 0
    /\ calls[2].iov = 2
    /\ calls[2].start = 0
    /\ calls[2].n = calls[2].len

\* read_volatile_at or write_volatile_at has returned.
TransferReturned ==
    MethodReturned("read_volatile_at") \/ MethodReturned("write_volatile_at")

\* C18: read_volatile_at and write_volatile_at called with max_len = 0 or
\* with an offset at or past the end of the buffer return Ok(0) and never
\* call the endpoint; they return Ok or Err only, never an absent value,
\* and Err only when an endpoint call failed.
C18_NothingToTransferIsOkZero ==
    TransferReturned
        => /\ (args.len = 0 \/ args.offset >= self.len)
                 => /\ ret = [tag |-> "Ok", val |-> 0]
                    /\ calls = <<>>
                    /\ mem = mem0
                    /\ endpoint = IoEndpoint
           /\ ret.tag \in {"Ok", "Err"}
           /\ ret.tag = "Err" => \E c \in DOMAIN calls : calls[c].result = "Err"

\* A transfer asked to start exactly at the end of a two-segment buffer,
\* with budget to spare.
C18_Witness ==
    /\ TransferReturned
    /\ Len(self.vecs) = 2
    /\ self.vecs[1].iov_len > 0
    /\ self.vecs[2].iov_len > 0
    /\ args.offset = self.len
    /\ args.len > 0
    /\ ret = [tag |-> "Ok", val |-> 0]

\* The endpoint never reported more bytes than the sub-range it was given.
Conforming == \A c \in DOMAIN calls : calls[c].n <= calls[c].len

\* The most a transfer with these arguments can move.
Available ==
    IF args.offset >= self.len THEN 0 ELSE Min(args.len, self.len - args.offset)

\* C19: with an endpoint that never reports more bytes than its
\* sub-range, a transfer that returns Ok(n) has
\* n <= min(max_len, len - offset), n = 0 for an offset at or past the
\* end, and n equal to the bound when no call was short; the budget is
\* never negative, and budget plus running total is max_len at every call
\* and after every full one.
C19_CountWithinBudget ==
    (api \in {"read_volatile_at", "write_volatile_at"} /\ Conforming)
        => /\ (pc = "ready" /\ ret.tag = "Ok")
                 => /\ ret.val <= Available
                    /\ args.offset >= self.len => ret.val = 0
                    /\ (\A c \in DOMAIN calls : ~ShortCall(c)) => ret.val = Available
           /\ len >= 0
           /\ \A c \in DOMAIN calls :
                 /\ calls[c].budget >= calls[c].len
                 /\ calls[c].budget + calls[c].total = args.len
           /\ (\A c \in DOMAIN calls : ~ShortCall(c))
                 => len + total_bytes_read = args.len

\* Two full calls, the second cut to what was left of a budget smaller
\* than the rest of the buffer.
C19_Witness ==
    /\ TransferReturned
    /\ Len(calls) = 2
    /\ calls[1].n = calls[1].len
    /\ calls[2].n = calls[2].len
    /\ calls[1].start > 0
    /\ calls[2].len < self.vecs[2].iov_len
    /\ ret = [tag |-> "Ok", val |-> args.len]
    /\ args.len < self.len - args.offset
    /\ len = 0

\* C20: no call of read_at, read_volatile_at, write_at or
\* write_volatile_at, whether it runs to the end, stops short or fails,
\* changes the segment list or len of the buffer: in every state of a
\* call and after it the segments are those of the chain, in chain order,
\* and len is the sum of their lengths.
C20_BufferUnchanged ==
    api # "none"
        => /\ iovec.tag = "Ok"
           /\ iovec.vecs = ChainSegments
           /\ iovec.len = SumIovLen(iovec.vecs)
           /\ iovec.len = ChainLength

\* A transfer that failed at its second segment after moving bytes of the
\* first.
C20_Witness ==
    /\ api = "write_volatile_at"
    /\ pc = "ready"
    /\ ret.tag = "Err"
    /\ Len(calls) = 2
    /\ calls[1].n > 0
    /\ mem # mem0
    /\ iovec.len = 3

\* A transfer is running / has returned.
TransferRunning == api # "none" /\ pc \in {"for", "endpoint"}
TransferDone == api # "none" /\ pc = "ready" /\ ret # Pending

\* The last endpoint call of the transfer was interrupted.
LastInterrupted == calls # <<>> /\ calls[Len(calls)].result = "Interrupted"

\* C21: the retry on Interrupted has no limit: after an interrupted call
\* the transfer is at the endpoint call again and has not returned, and if
\* the endpoint always ends up answering something other than Interrupted
\* every transfer returns, whatever number of interrupted calls came first.
C21_RetryUntilAnswered ==
    /\ [](LastInterrupted => (pc = "endpoint" /\ ret = Pending))
    /\ TransferRunning ~> TransferDone

\* A transfer over two segments that returned all it was asked for after
\* as many interrupted calls as the log keeps.
C21_Witness ==
    /\ TransferDone
    /\ Interrupts = MaxInterrupts
    /\ calls[1].result = "Interrupted"
    /\ ret.tag = "Ok"
    /\ ret.val = args.len
    /\ \E c \in DOMAIN calls : calls[c].iov = 2 /\ calls[c].result = "Ok"

\* The mark_dirty calls of the first n descriptors of the chain.
MarksOf(n) == [i \in 1..n |-> [desc |-> i, offset |-> 0, count |-> chain[i].len]]

\* C22: mark_dirty is called in the construction of a write buffer and
\* nowhere else: the construction of a read buffer makes no call, and
\* once a construction has returned the calls made are a function of the
\* chain alone, whatever method is then called and whatever it moves.
C22_DirtyOnlyInWriteConstruction ==
    /\ kind = IoVecBuffer => dirty = <<>>
    /\ (kind = IoVecBufferMut /\ Constructed)
          => dirty = MarksOf(IF iovec.tag = "Ok" THEN Len(chain) ELSE FailedAt - 1)
    /\ api # "none" => Len(dirty) \in {0, Len(chain)}

\* A write_volatile_at that stopped short inside the first of two marked
\* descriptors and left the second untouched.
C22_Witness ==
    /\ MethodReturned("write_volatile_at")
    /\ Len(dirty) = 2
    /\ dirty[1].count = 2
    /\ dirty[2].count > 0
    /\ Len(calls) = 1
    /\ calls[1].iov = 1
    /\ calls[1].n = 1
    /\ mem # mem0
    /\ ret = [tag |-> "Ok", val |-> 1]

\* ------------------------------------------------------ specification
\* Construction from any chain, then read_at or write_at.
Next ==
    \/ CheckDirection
    \/ GetSlice
    \/ MarkDirty
    \/ Push
    \/ ReturnOk
    \/ ReadAt
    \/ WriteAt
    \/ ForIov
    \/ EndpointCall

Spec == Init /\ [][Next]_vars

\* Construction from a chain that passes every check, then
\* read_volatile_at or write_volatile_at.
InitIo ==
    /\ Init
    /\ \A i \in DOMAIN chain :
          ~WrongDirection(kind, chain[i]) /\ GetSliceOk(chain[i].addr, chain[i].len)

NextIo ==
    \/ CheckDirection
    \/ GetSlice
    \/ MarkDirty
    \/ Push
    \/ ReturnOk
    \/ ReadVolatileAt
    \/ WriteVolatileAt
    \/ ForIov
    \/ EndpointCall

SpecIo == InitIo /\ [][NextIo]_vars

\* Construction from any chain, then any one of the four methods.
NextAll ==
    \/ CheckDirection
    \/ GetSlice
    \/ MarkDirty
    \/ Push
    \/ ReturnOk
    \/ ReadAt
    \/ WriteAt
    \/ ReadVolatileAt
    \/ WriteVolatileAt
    \/ ForIov
    \/ EndpointCall

SpecAll == Init /\ [][NextAll]_vars

\* The endpoint answers the call with something other than Interrupted.
EndpointCompletes ==
    /\ EndpointCall
    /\ calls'[Len(calls')].result # "Interrupted"

\* Whether a transfer ends depends on the lengths of the segments, not on
\* where they lie: chains of every combination of lengths, each descriptor
\* at guest address 0.
InitLive ==
    /\ InitIo
    /\ \A i \in DOMAIN chain : chain[i].addr = 0

\* Construction and read_volatile_at / write_volatile_at with the progress
\* the code has: the loop of the transfer goes on by itself, and the
\* endpoint, however often it is interrupted, ends up answering.
\* Interrupted results beyond the MaxInterrupts that the log of calls
\* keeps change no local of the transfer: they are the stuttering steps at
\* the endpoint call, of which any number may occur.
SpecLive ==
    /\ InitLive
    /\ [][NextIo]_vars
    /\ WF_vars(ForIov)
    /\ WF_vars(EndpointCompletes)
====
